---- MODULE Spec2Model ----
(***************************************************************************)
(* AlertBotTrading: a relay of trading alerts to Telegram chats.           *)
(*                                                                         *)
(* The model covers the relational store (models.py), the price alert      *)
(* poller (price_scraper.py), the webhook dispatcher (webhook.py), the      *)
(* notification gateway (telegram_bot.py) and the admin actions of         *)
(* config.py that change what the poller and the dispatcher read.          *)
(*                                                                         *)
(* Strings are modelled as sequences of tokens: the delimiters "$", "{"    *)
(* and "}" are tokens of their own, an identifier is one token, and any    *)
(* other run of text is one token.  Prices are integers (the code compares *)
(* floats with < and >, which integers order in the same way).             *)
(***************************************************************************)
EXTENDS Integers, Sequences, FiniteSets, TLC

VARIABLES
    telegram_configs,   \* TelegramConfig rows: id -> [is_active]
    tv_alerts,          \* TradingViewAlert rows: id -> record
    price_alerts,       \* PriceAlert rows: id -> record
    logs,               \* NotificationLog rows, in insertion order
    pc,                 \* run_checker: "ready" (about to call the cycle), "check" (inside the for loop), "sleep" (time.sleep)
    alerts,             \* the list loaded by the running cycle (ids, in row order)
    idx,                \* index in `alerts` of the next alert of the for loop
    cache,              \* ORM attribute cache of the loaded alerts not yet expired by a commit
    last,               \* what the most recent handler execution did (observation only)
    edits,              \* number of admin edit and delete actions so far
    fired,              \* per price alert: a one-time trigger was committed and no reset came since
    keylog,             \* per webhook key: "fresh", "revoked" by a regeneration, or "reissued" since
    px,                 \* one call of get_price_data: its inputs and its outcome
    rd,                 \* one rendering of a template: its inputs and its outcome
    rq,                 \* one webhook request followed statement by statement
    trail               \* per price alert: what became of its one-time trigger (observation only)

vars == <<telegram_configs, tv_alerts, price_alerts, logs, pc, alerts, idx,
          cache, last, edits, fired, keylog, px, rd, rq, trail>>

storeVars == <<telegram_configs, tv_alerts, price_alerts, logs>>
pollVars == <<pc, alerts, idx, cache>>

----------------------------------------------------------------------------
(* Bounds of the model *)

MaxTargets == 1
MaxPriceAlerts == 2
MaxLogs == 2
MaxEdits == 1
MaxTVAlerts == 2
MaxKeys == 2
MaxTplLen == 3
MaxPrice == 2

TCIds == 1..MaxTargets
PAIds == 1..MaxPriceAlerts
TVIds == 1..MaxTVAlerts

\* the values generate_webhook_key may return (16 random alphanumeric characters)
Keys == 1..MaxKeys
Prices == 0..MaxPrice
TargetPrices == {1}
Symbols == {"AAPL"}
AlertTypes == {"above", "below", "cross"}

None == "None"

\* datetime.utcnow(): some timestamp, which is not None
UtcNow == "utcnow"

\* the empty function
Empty == <<>>

Max(S) == CHOOSE m \in S : \A x \in S : x <= m

\* INTEGER PRIMARY KEY of SQLite: the next row id is one more than the largest in use
NextId(rows) == IF DOMAIN rows = {} THEN 1 ELSE Max(DOMAIN rows) + 1

\* f with the row `id` set to `row`
Put(f, id, row) == [k \in (DOMAIN f) \cup {id} |-> IF k = id THEN row ELSE f[k]]

\* f without the row `id`
Del(f, id) == [k \in (DOMAIN f) \ {id} |-> f[k]]

\* the ids of S in ascending order
RECURSIVE SortedSeq(_)
SortedSeq(S) ==
    IF S = {} THEN <<>>
    ELSE LET m == CHOOSE x \in S : \A y \in S : x <= y
         IN <<m>> \o SortedSeq(S \ {m})

----------------------------------------------------------------------------
(* Strings and templates *)

\* tokens that match the identifier pattern [_a-z][_a-z0-9]* of string.Template
IdentTokens == {"a", "b", "X", "symbol", "current_price", "target_price",
                "alert_type", "strategy", "ticker", "close", "raw_data",
                "TradingView", "Alert", "AAPL", "breakout", "above", "below",
                "cross"}

Drop(t, n) == SubSeq(t, n + 1, Len(t))

\* no two identifier tokens are adjacent (two adjacent identifiers would be one identifier)
WellFormed(t) ==
    \A i \in 1..(Len(t) - 1) : ~(t[i] \in IdentTokens /\ t[i + 1] \in IdentTokens)

\* str(x) of a float that holds an integer value
FloatStr(n) == ToString(n) \o ".0"

\* TradingViewAlert.message_template default
TVDefaultTemplate ==
    <<"TradingView", " ", "Alert", ": ", "{", "{", "strategy", "}", "}", " - ",
      "{", "{", "ticker", "}", "}", " - ", "{", "{", "close", "}", "}">>

\* PriceAlert.message_template default ("Alerta de precio: ... ha alcanzado ..., objetivo: ...")
PADefaultTemplate ==
    <<"Alerta de precio: ", "{", "{", "symbol", "}", "}", " ha alcanzado ",
      "{", "{", "current_price", "}", "}", ", objetivo: ",
      "{", "{", "target_price", "}", "}">>

\* the template has a "$name" or "${name}" placeholder, the only places where
\* safe_substitute indexes the mapping
RECURSIVE HasDollarPlaceholder(_)
HasDollarPlaceholder(t) ==
    IF t = <<>> THEN FALSE
    ELSE IF t[1] # "$" THEN HasDollarPlaceholder(Tail(t))
    ELSE IF Len(t) >= 2 /\ t[2] = "$" THEN HasDollarPlaceholder(Drop(t, 2))
    ELSE IF Len(t) >= 2 /\ t[2] \in IdentTokens THEN TRUE
    ELSE IF Len(t) >= 4 /\ t[2] = "{" /\ t[3] \in IdentTokens /\ t[4] = "}" THEN TRUE
    ELSE HasDollarPlaceholder(Tail(t))

\* string.Template(t).safe_substitute(m) for a mapping m: "$$" is an escaped
\* "$", "$name" and "${name}" are replaced when name is a key of m and kept
\* otherwise, any other "$" is kept
RECURSIVE SafeSubstitute(_, _)
SafeSubstitute(t, m) ==
    IF t = <<>> THEN <<>>
    ELSE IF t[1] # "$" THEN <<t[1]>> \o SafeSubstitute(Tail(t), m)
    ELSE IF Len(t) >= 2 /\ t[2] = "$" THEN <<"$">> \o SafeSubstitute(Drop(t, 2), m)
    ELSE IF Len(t) >= 2 /\ t[2] \in IdentTokens
         THEN (IF t[2] \in DOMAIN m THEN <<m[t[2]]>> ELSE <<"$", t[2]>>)
              \o SafeSubstitute(Drop(t, 2), m)
    ELSE IF Len(t) >= 4 /\ t[2] = "{" /\ t[3] \in IdentTokens /\ t[4] = "}"
         THEN (IF t[3] \in DOMAIN m THEN <<m[t[3]]>> ELSE SubSeq(t, 1, 4))
              \o SafeSubstitute(Drop(t, 4), m)
    ELSE <<"$">> \o SafeSubstitute(Tail(t), m)

\* "{{name}}"
Braces(name) == <<"{", "{", name, "}", "}">>

\* str.replace(old, new): every non-overlapping occurrence of old, left to right
RECURSIVE Replace(_, _, _)
Replace(t, old, new) ==
    IF Len(t) < Len(old) THEN t
    ELSE IF SubSeq(t, 1, Len(old)) = old
         THEN new \o Replace(Drop(t, Len(old)), old, new)
    ELSE <<t[1]>> \o Replace(Tail(t), old, new)

\* the four chained replace calls of the poller
PollerRender(template, symbol, current_price, target_price, alert_type) ==
    LET m1 == Replace(template, Braces("symbol"), <<symbol>>)
        m2 == Replace(m1, Braces("current_price"), <<FloatStr(current_price)>>)
        m3 == Replace(m2, Braces("target_price"), <<FloatStr(target_price)>>)
    IN Replace(m3, Braces("alert_type"), <<alert_type>>)

\* a parsed payload: a JSON object (map = TRUE, items: keys to values) or any
\* other JSON value, such as a list (map = FALSE)
MapPayload(items) == [map |-> TRUE, items |-> items]
ListPayload == [map |-> FALSE, items |-> Empty]

\* json.dumps(payload), kept abstract: one token per shape of payload
JsonDumps(payload) ==
    IF ~payload.map THEN "[1]"
    ELSE IF DOMAIN payload.items = {} THEN "{}"
    ELSE IF "raw_data" \in DOMAIN payload.items THEN "{\"raw_data\": ...}"
    ELSE "{...}"

\* Template(...).safe_substitute(payload) raises (TypeError) when it indexes
\* a payload that is not a mapping
RenderRaises(template, payload) == ~payload.map /\ HasDollarPlaceholder(template)

\* line 57: the fallback message
FallbackMessage(name, payload) ==
    <<"TradingView", " ", "Alert", " (", name, "): ", JsonDumps(payload)>>

\* as WebhookRender, without the except clause of line 55
WebhookRender_NoFallback(template, name, payload) ==
    SafeSubstitute(template, payload.items)

\* the message of the webhook dispatcher: the rendered template, or the
\* fallback text when rendering raised
WebhookRender(template, name, payload) ==
    IF RenderRaises(template, payload)
    THEN FallbackMessage(name, payload)
    ELSE SafeSubstitute(template, payload.items)

----------------------------------------------------------------------------
(* Notification gateway *)

\* what the messaging provider may answer: an HTTP status, or 0 for a
\* transport failure (requests.post raises)
Responses == {0, 200, 201, 500}

\* send_telegram_message: {"success": True} on status 200, otherwise
\* {"success": False, "error": ...}; an exception is turned into the latter
SendTelegramMessage(response) == [success |-> response = 200]

\* "success" if telegram_result.get("success") else "failed"
StatusOf(telegram_result) == IF telegram_result.success THEN "success" ELSE "failed"

----------------------------------------------------------------------------
(* Store rows *)

PATemplates == {PADefaultTemplate}

\* a template in the "$name" convention of string.Template
TVDollarTemplate ==
    <<"TradingView", " ", "Alert", ": ", "$", "strategy", " - ", "$", "{", "ticker", "}",
      " - ", "$", "close">>

TVTemplates == {TVDefaultTemplate, TVDollarTemplate}
Names == {"breakout_alert"}

\* TradingViewAlert(...) as the add action builds it
NewTVAlert(name, webhook_key, tc, template) ==
    [name |-> name, webhook_key |-> webhook_key, message_template |-> template,
     is_active |-> TRUE, telegram_config_id |-> tc]

\* PriceAlert(...) as the add action builds it: active, not triggered;
\* updated_at holds the time of the last write of the row, named here after
\* the write: the add, the last edit, the last committed trigger
NewPriceAlert(symbol, alert_type, target_price, tc, template, is_one_time) ==
    [symbol |-> symbol, alert_type |-> alert_type, target_price |-> target_price,
     message_template |-> template, is_active |-> TRUE, is_one_time |-> is_one_time,
     is_triggered |-> FALSE, last_triggered_at |-> None, telegram_config_id |-> tc,
     updated_at |-> "at_add"]

\* as LogRow, with both references set to the id of the dispatching alert
LogRow_BothRefs(alert_id, price_alert_id, message_sent, status) ==
    [alert_id |-> alert_id + price_alert_id, price_alert_id |-> alert_id + price_alert_id,
     status |-> status]

\* NotificationLog row
LogRow(alert_id, price_alert_id, message_sent, status) ==
    [alert_id |-> alert_id, price_alert_id |-> price_alert_id, status |-> status]

\* the observation of a handler execution
Obs(op, id, outcome) ==
    [op |-> op, id |-> id, outcome |-> outcome, price |-> 0, view |-> None,
     sent |-> 0, result |-> None, committed |-> FALSE, code |-> 0, key |-> None,
     message |-> <<>>, payload |-> None]

----------------------------------------------------------------------------
(* Price alert poller: check_and_trigger_alerts *)

\* what a market data source may answer: status 0 stands for a transport
\* failure (requests.get raises); has_price tells whether the answer holds
\* the expected price field
Replies ==
    {[status |-> st, has_price |-> FALSE, price |-> 0] : st \in {0, 200, 500}}
    \cup {[status |-> 200, has_price |-> TRUE, price |-> p] : p \in Prices}

\* the dictionary both functions return on success (the timestamp is left out)
PriceData(symbol, price) == [symbol |-> symbol, price |-> price]

\* line 39-55, and line 82-100 of the alternative source: the price of a 200
\* answer that holds the field, None (the empty tuple here) otherwise
ParseReply(symbol, reply) ==
    IF reply.status = 200 /\ reply.has_price THEN PriceData(symbol, reply.price)
    ELSE <<>>

\* get_price_from_alternative_source
GetPriceFromAlternativeSource(symbol, secondary) == ParseReply(symbol, secondary)

\* line 30-34: the only call of the alternative source
UsesAlternative(has_key, primary) == ~has_key

\* get_price_data: data is what it returns, alt tells whether the
\* alternative source was queried
GetPriceData(symbol, has_key, primary, secondary) ==
    IF UsesAlternative(has_key, primary)
    THEN [data |-> GetPriceFromAlternativeSource(symbol, secondary), alt |-> TRUE]
    ELSE [data |-> ParseReply(symbol, primary), alt |-> FALSE]

\* what get_price_data may return to the poller
PollPriceData(symbol) ==
    {GetPriceData(symbol, has_key, primary, secondary).data :
        has_key \in BOOLEAN, primary \in Replies, secondary \in Replies}

\* as Evaluate, with a price equal to the target meeting the condition
Evaluate_Inclusive(alert_type, current_price, target_price) ==
    \/ alert_type = "above" /\ current_price >= target_price
    \/ alert_type = "below" /\ current_price <= target_price

\* line 141-144: the alert condition
Evaluate(alert_type, current_price, target_price) ==
    \/ alert_type = "above" /\ current_price > target_price
    \/ alert_type = "below" /\ current_price < target_price

\* as SkipTriggered, for a poller that also passes over an alert whose target is not active
SkipTriggered_InactiveTarget(view) ==
    \/ view.is_one_time /\ view.is_triggered
    \/ /\ view.telegram_config_id \in DOMAIN telegram_configs
       /\ ~telegram_configs[view.telegram_config_id].is_active

\* as SkipTriggered, without the test of is_one_time
SkipTriggered_AnyKind(view) == view.is_triggered

\* line 125: a one-time alert that has already been triggered is skipped
SkipTriggered(view) == view.is_one_time /\ view.is_triggered

\* as MarkTriggered, with the alert switched off as well
MarkTriggered_Deactivates(row, now) ==
    [row EXCEPT !.is_triggered = TRUE, !.last_triggered_at = now, !.is_active = FALSE]

\* as MarkTriggered, with the update of the alert left out of the transaction
MarkTriggered_Nothing(row, now) == row

\* as MarkTriggered, without the assignment of is_triggered
MarkTriggered_StampOnly(row, now) == [row EXCEPT !.last_triggered_at = now]

\* line 173-175: the update of a one-time alert; the UPDATE statement also
\* sets updated_at (onupdate of models.py:48)
MarkTriggered(row, now) ==
    [row EXCEPT !.is_triggered = TRUE, !.last_triggered_at = now,
                !.updated_at = "at_trigger"]

\* PriceAlert.query.filter_by(is_active=True).all()
ActiveAlerts == SortedSeq({id \in DOMAIN price_alerts : price_alerts[id].is_active})

\* the attributes the loop reads for alert id: the ones loaded with the list
\* until a commit of this cycle expires them, then the row of the store
View(id) == IF id \in DOMAIN cache THEN cache[id] ELSE price_alerts[id]

\* the store has room for MaxLogs log rows: a commit that would add one more
\* raises, as any commit may
CommitResults == IF Len(logs) < MaxLogs THEN BOOLEAN ELSE {FALSE}

\* as CycleDue, for a scheduler that starts cycles on a timer of its own
CycleDue_Timer == pc \in {"ready", "check"}

\* line 193-201 of run_checker: the loop calls check_and_trigger_alerts when
\* the previous call has returned and time.sleep has returned
CycleDue == pc = "ready"

\* line 201: time.sleep(check_interval) returns when the interval has passed
Sleep ==
    /\ pc = "sleep"
    /\ pc' = "ready"
    /\ UNCHANGED <<storeVars, alerts, idx, cache, last, edits, fired, keylog, px, rd, rq, trail>>

\* line 115-121: a cycle starts and loads the active alerts
StartCycle ==
    /\ CycleDue
    /\ alerts' = ActiveAlerts
    /\ idx' = 1
    /\ IF ActiveAlerts = <<>>
       THEN pc' = "sleep" /\ cache' = Empty
       ELSE /\ pc' = "check"
            /\ cache' = [id \in {ActiveAlerts[i] : i \in 1..Len(ActiveAlerts)}
                            |-> price_alerts[id]]
    /\ last' = Obs("load", 0, "loaded")
    /\ UNCHANGED <<storeVars, edits, fired, keylog, px, rd, rq, trail>>

\* as Continue, leaving the loop (break for continue)
Continue_Break(id, dropCache) ==
    /\ pc' = "sleep"
    /\ cache' = Empty
    /\ UNCHANGED <<alerts, idx>>

\* the loop goes on with the next alert, or the cycle is over
Continue(id, dropCache) ==
    /\ idx' = idx + 1
    /\ pc' = IF idx + 1 > Len(alerts) THEN "sleep" ELSE "check"
    /\ cache' = IF dropCache \/ idx + 1 > Len(alerts) THEN Empty ELSE Del(cache, id)
    /\ UNCHANGED alerts

\* as Abort, with the exception ending the thread of run_checker
Abort_EndsThread ==
    /\ pc' = "dead"
    /\ cache' = Empty
    /\ UNCHANGED <<alerts, idx>>

\* line 179-180: an exception leaves the for loop; the cycle is over
Abort ==
    /\ pc' = "sleep"
    /\ cache' = Empty
    /\ UNCHANGED <<alerts, idx>>

\* what a committed one-time trigger of the alert means for its trail
Delivered(t) ==
    CASE t = "reset" -> "refired"
      [] t = "lost" -> "redelivered"
      [] OTHER -> t

\* as Commit, with a one-time alert marked only when the delivery succeeded
Commit_OnlyOnSuccess(id, view, row, commit_ok) ==
    IF commit_ok
    THEN /\ logs' = Append(logs, row)
         /\ price_alerts' =
              IF view.is_one_time /\ row.status = "success"
              THEN [price_alerts EXCEPT ![id] = MarkTriggered(@, UtcNow)]
              ELSE price_alerts
         /\ fired' = IF view.is_one_time /\ row.status = "success"
                     THEN [fired EXCEPT ![id] = TRUE] ELSE fired
         /\ trail' = trail
    ELSE UNCHANGED <<logs, price_alerts, fired, trail>>

\* as Commit, with the row and the flag committed before the gateway is called
Commit_BeforeSend(id, view, row, commit_ok) ==
    /\ logs' = IF Len(logs) < MaxLogs THEN Append(logs, row) ELSE logs
    /\ price_alerts' =
         IF view.is_one_time /\ id \in DOMAIN price_alerts
         THEN [price_alerts EXCEPT ![id] = MarkTriggered(@, UtcNow)]
         ELSE price_alerts
    /\ fired' = IF view.is_one_time THEN [fired EXCEPT ![id] = TRUE] ELSE fired
    /\ trail' = trail

\* line 170-177: the row is added, a one-time alert is updated, and
\* db.session.commit() writes both in one transaction or raises and writes nothing
Commit(id, view, row, commit_ok) ==
    IF commit_ok
    THEN /\ logs' = Append(logs, row)
         /\ price_alerts' =
              IF view.is_one_time
              THEN [price_alerts EXCEPT ![id] = MarkTriggered(@, UtcNow)]
              ELSE price_alerts
         /\ fired' = IF view.is_one_time THEN [fired EXCEPT ![id] = TRUE] ELSE fired
         /\ trail' = IF view.is_one_time
                     THEN [trail EXCEPT ![id] = Delivered(@)] ELSE trail
    ELSE /\ UNCHANGED <<logs, price_alerts, fired>>
         /\ trail' = IF view.is_one_time /\ trail[id] = "none"
                     THEN [trail EXCEPT ![id] = "lost"] ELSE trail

\* line 123-177: one iteration of the for loop
CheckAlert ==
    /\ pc = "check"
    /\ LET id == alerts[idx]
           view == View(id)
       IN
       IF id \notin DOMAIN cache /\ id \notin DOMAIN price_alerts
       THEN \* the row was deleted and its attributes are expired: ObjectDeletedError
            /\ Abort
            /\ last' = Obs("check", id, "fault")
            /\ UNCHANGED <<storeVars, edits, fired, keylog, px, rd, rq, trail>>
       ELSE IF SkipTriggered(view)
       THEN /\ Continue(id, FALSE)
            /\ last' = [Obs("check", id, "skip_triggered") EXCEPT !.view = view]
            /\ UNCHANGED <<storeVars, edits, fired, keylog, px, rd, rq, trail>>
       ELSE \E price_data \in PollPriceData(view.symbol) :
            IF price_data = <<>>
            THEN /\ Continue(id, FALSE)
                 /\ last' = [Obs("check", id, "no_price") EXCEPT !.view = view]
                 /\ UNCHANGED <<storeVars, edits, fired, keylog, px, rd, rq, trail>>
            ELSE IF ~Evaluate(view.alert_type, price_data.price, view.target_price)
            THEN /\ Continue(id, FALSE)
                 /\ last' = [Obs("check", id, "no_trigger") EXCEPT
                                !.view = view, !.price = price_data.price]
                 /\ UNCHANGED <<storeVars, edits, fired, keylog, px, rd, rq, trail>>
            ELSE
              LET message == PollerRender(view.message_template, view.symbol,
                                 price_data.price, view.target_price, view.alert_type)
                  obs == [Obs("check", id, "triggered") EXCEPT
                                !.view = view, !.price = price_data.price,
                                !.message = message]
              IN
              IF view.telegram_config_id \notin DOMAIN telegram_configs
              THEN \* alert.telegram_config is None: AttributeError
                   /\ Abort
                   /\ last' = [obs EXCEPT !.outcome = "fault"]
                   /\ UNCHANGED <<storeVars, edits, fired, keylog, px, rd, rq, trail>>
              ELSE \E response \in Responses, commit_ok \in CommitResults :
                   \* the UPDATE of a deleted row matches nothing: StaleDataError
                   (view.is_one_time /\ id \notin DOMAIN price_alerts => ~commit_ok) /\
                   LET telegram_result == SendTelegramMessage(response)
                       row == LogRow(0, id, message, StatusOf(telegram_result))
                       sent == [obs EXCEPT !.sent = 1, !.result = StatusOf(telegram_result)]
                   IN
                   /\ Commit(id, view, row, commit_ok)
                   /\ IF commit_ok
                      THEN /\ Continue(id, TRUE)
                           /\ last' = [sent EXCEPT !.committed = TRUE]
                      ELSE /\ Abort
                           /\ last' = [sent EXCEPT !.outcome = "fault"]
                   /\ UNCHANGED <<telegram_configs, tv_alerts, edits, keylog, px, rd, rq>>

\* the model follows at most MaxEdits edit actions
Edited == edits < MaxEdits /\ edits' = edits + 1

----------------------------------------------------------------------------
(* Webhook dispatcher: receive_alert *)

\* the payload of the scenario: {"ticker": "AAPL", "close": "150.2", "strategy": "breakout"}
ScenarioItems ==
    [k \in {"ticker", "close", "strategy"} |->
        CASE k = "ticker" -> "AAPL" [] k = "close" -> "150.2" [] k = "strategy" -> "breakout"]

\* request bodies: a JSON object, the empty JSON object, a JSON list, text
\* that is not JSON, bytes that are not UTF-8
Bodies == {"object", "empty_object", "list", "text", "bad_utf8"}

\* line 42-47: get_json(silent=True), then json.loads of the raw body when
\* that gave nothing (or something falsy), then the raw_data wrapper;
\* decoding bytes that are not UTF-8 raises in line 45 and again in line 47
ParseRaises(body) == body = "bad_utf8"
ParsePayload(body) ==
    CASE body = "object" -> MapPayload(ScenarioItems)
      [] body = "empty_object" -> MapPayload(Empty)
      [] body = "list" -> ListPayload
      [] OTHER -> MapPayload([k \in {"raw_data"} |-> "buy now"])

\* as Resolve, without the filter on is_active
Resolve_AnyState(webhook_key) ==
    {id \in DOMAIN tv_alerts : tv_alerts[id].webhook_key = webhook_key}

\* line 30: TradingViewAlert.query.filter_by(webhook_key=..., is_active=True).first()
Resolve(webhook_key) ==
    {id \in DOMAIN tv_alerts :
        tv_alerts[id].webhook_key = webhook_key /\ tv_alerts[id].is_active}

\* as ResponseCode, answering 200 whatever the gateway returned
ResponseCode_AlwaysOk(telegram_result) == 200

\* line 77-83: the status of the response after the log row is committed
ResponseCode(telegram_result) == IF telegram_result.success THEN 200 ELSE 500

\* as ErrorBoundary, with the failed row written over the newest row
ErrorBoundary_Overwrites(obs, alert_id, body) ==
    /\ logs' = IF logs # <<>>
               THEN [logs EXCEPT ![Len(logs)] = LogRow(alert_id, 0, <<>>, "failed")]
               ELSE <<LogRow(alert_id, 0, <<>>, "failed")>>
    /\ last' = [obs EXCEPT !.outcome = "fault", !.code = 500]

\* line 85-103: the handler of any exception of the try block; one more log
\* row is attempted, and the caller gets 500
ErrorBoundary(obs, alert_id, body) ==
    /\ \E commit2_ok \in BOOLEAN :
          logs' = IF commit2_ok /\ ~ParseRaises(body)
                  THEN Append(logs, LogRow(alert_id, 0, <<>>, "failed"))
                  ELSE logs
    /\ last' = [obs EXCEPT !.outcome = "fault", !.code = 500]

\* line 19-103: one request POST /webhook/<webhook_key>
ReceiveAlert ==
    /\ Len(logs) < MaxLogs
    /\ \E webhook_key \in Keys, query_ok \in BOOLEAN :
       LET obs0 == [Obs("webhook", 0, "received") EXCEPT !.key = webhook_key]
       IN
       IF ~query_ok
       THEN \* the query raises: alert_config is not bound
            \E body \in Bodies : ErrorBoundary(obs0, 0, body)
       ELSE IF Resolve(webhook_key) = {}
       THEN /\ last' = [obs0 EXCEPT !.outcome = "rejected", !.code = 404]
            /\ logs' = logs
       ELSE
         LET id == CHOOSE i \in Resolve(webhook_key) : TRUE
             alert_config == tv_alerts[id]
             obs1 == [obs0 EXCEPT !.id = id, !.view = alert_config]
         IN
         IF alert_config.telegram_config_id \notin DOMAIN telegram_configs
         THEN \* alert_config.telegram_config is None: AttributeError
              \E body \in Bodies : ErrorBoundary(obs1, id, body)
         ELSE IF ~telegram_configs[alert_config.telegram_config_id].is_active
         THEN /\ last' = [obs1 EXCEPT !.outcome = "rejected", !.code = 400]
              /\ logs' = logs
         ELSE \E body \in Bodies :
           IF ParseRaises(body)
           THEN ErrorBoundary(obs1, id, body)
           ELSE
           \E response \in Responses, commit_ok \in BOOLEAN :
           LET payload == ParsePayload(body)
               message == WebhookRender(alert_config.message_template,
                                        alert_config.name, payload)
               telegram_result == SendTelegramMessage(response)
               obs2 == [obs1 EXCEPT !.payload = payload, !.message = message,
                                    !.sent = 1, !.result = StatusOf(telegram_result)]
           IN
           IF ~commit_ok
           THEN ErrorBoundary(obs2, id, body)
           ELSE /\ logs' = Append(logs, LogRow(id, 0, message, StatusOf(telegram_result)))
                /\ last' = [obs2 EXCEPT !.outcome = "delivered", !.committed = TRUE,
                                        !.code = ResponseCode(telegram_result)]
    /\ UNCHANGED <<telegram_configs, tv_alerts, price_alerts, pollVars, edits, fired, keylog, px, rd, rq, trail>>

----------------------------------------------------------------------------
(* One request of receive_alert, statement by statement *)

Requests ==
    [pc : {"received"}, key : Keys, body : Bodies, id : {0}, message : {<<>>},
     response : {0}, result : {None}, sent : {0}, persisted : {FALSE}, code : {0}]

\* line 30-39: the lookup of the key and the check of the target
RqResolve ==
    /\ rq.pc = "received"
    /\ \E query_ok \in BOOLEAN :
          IF ~query_ok
          THEN rq' = [rq EXCEPT !.pc = "boundary"]
          ELSE IF Resolve(rq.key) = {}
          THEN rq' = [rq EXCEPT !.pc = "responded", !.code = 404]
          ELSE LET id == CHOOSE i \in Resolve(rq.key) : TRUE
                   tc == tv_alerts[id].telegram_config_id
               IN IF tc \notin DOMAIN telegram_configs
                  THEN rq' = [rq EXCEPT !.pc = "boundary", !.id = id]
                  ELSE IF ~telegram_configs[tc].is_active
                  THEN rq' = [rq EXCEPT !.pc = "responded", !.id = id, !.code = 400]
                  ELSE rq' = [rq EXCEPT !.pc = "resolved", !.id = id]
    /\ UNCHANGED <<storeVars, pollVars, last, edits, fired, keylog, px, rd, trail>>

\* line 42-57: the payload is parsed and the message rendered
RqRender ==
    /\ rq.pc = "resolved"
    /\ IF ParseRaises(rq.body)
       THEN rq' = [rq EXCEPT !.pc = "boundary"]
       ELSE rq' = [rq EXCEPT !.pc = "rendered", !.message =
                      WebhookRender(tv_alerts[rq.id].message_template,
                                    tv_alerts[rq.id].name, ParsePayload(rq.body))]
    /\ UNCHANGED <<storeVars, pollVars, last, edits, fired, keylog, px, rd, trail>>

\* line 60-64: the gateway is called
RqDeliver ==
    /\ rq.pc = "rendered"
    /\ \E response \in Responses :
          rq' = [rq EXCEPT !.pc = "delivered", !.sent = 1, !.response = response,
                           !.result = StatusOf(SendTelegramMessage(response))]
    /\ UNCHANGED <<storeVars, pollVars, last, edits, fired, keylog, px, rd, trail>>

\* as RqPersist, with the row left out
RqPersist_NoRow ==
    /\ rq.pc = "delivered"
    /\ rq' = [rq EXCEPT !.pc = "persisted", !.persisted = TRUE]
    /\ UNCHANGED <<storeVars, pollVars, last, edits, fired, keylog, px, rd, trail>>

\* line 67-75: the log row is added and committed
RqPersist ==
    /\ rq.pc = "delivered"
    /\ \E commit_ok \in BOOLEAN :
          IF commit_ok
          THEN /\ logs' = Append(logs, LogRow(rq.id, 0, rq.message, rq.result))
               /\ rq' = [rq EXCEPT !.pc = "persisted", !.persisted = TRUE]
          ELSE /\ logs' = logs
               /\ rq' = [rq EXCEPT !.pc = "boundary"]
    /\ UNCHANGED <<telegram_configs, tv_alerts, price_alerts, pollVars, last, edits, fired, keylog, px, rd, trail>>

\* line 77-83: the response after the commit
RqRespond ==
    /\ rq.pc = "persisted"
    /\ rq' = [rq EXCEPT !.pc = "responded",
                        !.code = ResponseCode([success |-> rq.result = "success"])]
    /\ UNCHANGED <<storeVars, pollVars, last, edits, fired, keylog, px, rd, trail>>

\* line 85-101: the except block, with its attempt to write a failed row
RqBoundary ==
    /\ rq.pc = "boundary"
    /\ \E commit2_ok \in BOOLEAN :
          logs' = IF commit2_ok /\ ~ParseRaises(rq.body)
                  THEN Append(logs, LogRow(rq.id, 0, <<>>, "failed"))
                  ELSE logs
    /\ rq' = [rq EXCEPT !.pc = "handled"]
    /\ UNCHANGED <<telegram_configs, tv_alerts, price_alerts, pollVars, last, edits, fired, keylog, px, rd, trail>>

\* line 103: the response of the except block
RqRespondError ==
    /\ rq.pc = "handled"
    /\ rq' = [rq EXCEPT !.pc = "responded", !.code = 500]
    /\ UNCHANGED <<storeVars, pollVars, last, edits, fired, keylog, px, rd, trail>>

----------------------------------------------------------------------------
(* Admin actions of config.py *)

\* as KeyTaken, for a key column without the unique constraint
KeyTaken_Never(webhook_key, except_id) == FALSE

\* generate_webhook_key(): any key; the key column is unique, so a commit
\* that would give two rows the same key raises and is rolled back
KeyTaken(webhook_key, except_id) ==
    \E i \in DOMAIN tv_alerts : i # except_id /\ tv_alerts[i].webhook_key = webhook_key

\* as Regenerated, without the assignment of the new key
Regenerated_KeepsKey(row, webhook_key) == row

\* line 254: the row with its new key
Regenerated(row, webhook_key) == [row EXCEPT !.webhook_key = webhook_key]

\* bookkeeping of a key that a committed add or regeneration hands out
Issued(log, webhook_key) ==
    [log EXCEPT ![webhook_key] = IF @ = "fresh" THEN "fresh" ELSE "reissued"]

\* alerts_config, action add
TVAlertAdd ==
    /\ NextId(tv_alerts) \in TVIds
    /\ \E name \in Names, webhook_key \in Keys, tc \in DOMAIN telegram_configs,
          template \in TVTemplates :
          /\ IF KeyTaken(webhook_key, 0)
             THEN UNCHANGED <<tv_alerts, keylog>>
             ELSE /\ tv_alerts' = Put(tv_alerts, NextId(tv_alerts),
                                      NewTVAlert(name, webhook_key, tc, template))
                  /\ keylog' = Issued(keylog, webhook_key)
          /\ last' = [Obs("admin", 0, "alert_add") EXCEPT
                        !.key = webhook_key, !.committed = ~KeyTaken(webhook_key, 0)]
    /\ UNCHANGED <<telegram_configs, price_alerts, logs, pollVars, edits, fired, px, rd, rq, trail>>

\* alerts_config, action edit
TVAlertEdit ==
    /\ \E id \in DOMAIN tv_alerts, name \in Names, tc \in DOMAIN telegram_configs,
          template \in TVTemplates, is_active \in BOOLEAN :
          tv_alerts' = [tv_alerts EXCEPT ![id] =
                [name |-> name, webhook_key |-> @.webhook_key,
                 message_template |-> template, is_active |-> is_active,
                 telegram_config_id |-> tc]]
    /\ last' = Obs("admin", 0, "alert_edit")
    /\ Edited
    /\ UNCHANGED <<telegram_configs, price_alerts, logs, pollVars, fired, keylog, px, rd, rq, trail>>

\* alerts_config, action regenerate_webhook
RegenerateWebhook ==
    /\ \E id \in DOMAIN tv_alerts, webhook_key \in Keys :
          /\ IF KeyTaken(webhook_key, id)
             THEN UNCHANGED <<tv_alerts, keylog>>
             ELSE /\ tv_alerts' = [tv_alerts EXCEPT ![id] = Regenerated(@, webhook_key)]
                  /\ keylog' = Issued([keylog EXCEPT ![tv_alerts[id].webhook_key] = "revoked"],
                                      webhook_key)
          /\ last' = [Obs("admin", id, "regenerate") EXCEPT
                        !.key = tv_alerts[id].webhook_key,
                        !.committed = ~KeyTaken(webhook_key, id)]
    /\ Edited
    /\ UNCHANGED <<telegram_configs, price_alerts, logs, pollVars, fired, px, rd, rq, trail>>

\* telegram_config, action add: the connection test must succeed
TargetAdd ==
    /\ NextId(telegram_configs) \in TCIds
    /\ telegram_configs' = Put(telegram_configs, NextId(telegram_configs),
                               [is_active |-> TRUE])
    /\ last' = Obs("admin", 0, "target_add")
    /\ UNCHANGED <<tv_alerts, price_alerts, logs, pollVars, edits, fired, keylog, px, rd, rq, trail>>

\* telegram_config, action edit
TargetEdit ==
    /\ \E id \in DOMAIN telegram_configs, is_active \in BOOLEAN :
          telegram_configs' = [telegram_configs EXCEPT ![id] = [is_active |-> is_active]]
    /\ last' = Obs("admin", 0, "target_edit")
    /\ Edited
    /\ UNCHANGED <<tv_alerts, price_alerts, logs, pollVars, fired, keylog, px, rd, rq, trail>>

\* the attributes of a TelegramConfig object: its columns and the two
\* backrefs that the relationships of the alert models create
TargetAttributes ==
    {"id", "bot_token", "chat_id", "is_active", "created_at", "updated_at",
     "tradingview_alerts", "price_alerts"}

\* the alerts of either kind that reference the target
Referencing(tc) ==
    [tv |-> {id \in DOMAIN tv_alerts : tv_alerts[id].telegram_config_id = tc},
     pa |-> {id \in DOMAIN price_alerts : price_alerts[id].telegram_config_id = tc}]

\* as TargetDelete, without the check of line 118
TargetDelete_Unguarded ==
    /\ \E id \in DOMAIN telegram_configs :
          /\ telegram_configs' = Del(telegram_configs, id)
          /\ last' = [Obs("admin", id, "target_delete") EXCEPT !.committed = TRUE]
    /\ UNCHANGED <<tv_alerts, price_alerts, logs, pollVars, edits, fired, keylog, px, rd, rq, trail>>

\* telegram_config, action delete: line 118 reads config.alerts, which raises
\* AttributeError when the object has no such attribute; the except block
\* rolls back
TargetDelete ==
    /\ \E id \in DOMAIN telegram_configs :
          IF "alerts" \notin TargetAttributes
          THEN /\ telegram_configs' = telegram_configs
               /\ last' = [Obs("admin", id, "target_delete") EXCEPT !.result = "AttributeError"]
          ELSE IF Referencing(id).tv # {} \/ Referencing(id).pa # {}
          THEN /\ telegram_configs' = telegram_configs
               /\ last' = [Obs("admin", id, "target_delete") EXCEPT !.result = "refused"]
          ELSE /\ telegram_configs' = Del(telegram_configs, id)
               /\ last' = [Obs("admin", id, "target_delete") EXCEPT !.committed = TRUE]
    /\ UNCHANGED <<tv_alerts, price_alerts, logs, pollVars, edits, fired, keylog, px, rd, rq, trail>>

\* the log rows after the delete of the alert they reference: the
\* relationship has no delete cascade, so the ORM sets their foreign key to NULL
Dereferenced(rows, field, id) ==
    [i \in DOMAIN rows |->
        IF rows[i][field] = id THEN [rows[i] EXCEPT ![field] = 0] ELSE rows[i]]

\* alerts_config, action delete
TVAlertDelete ==
    /\ \E id \in DOMAIN tv_alerts :
          /\ tv_alerts' = Del(tv_alerts, id)
          /\ logs' = Dereferenced(logs, "alert_id", id)
          /\ keylog' = [keylog EXCEPT ![tv_alerts[id].webhook_key] = "revoked"]
          /\ last' = [Obs("admin", id, "alert_delete") EXCEPT !.committed = TRUE]
    /\ UNCHANGED <<telegram_configs, price_alerts, pollVars, edits, fired, px, rd, rq, trail>>

\* price_alerts, action delete
PriceAlertDelete ==
    /\ \E id \in DOMAIN price_alerts :
          /\ price_alerts' = Del(price_alerts, id)
          /\ logs' = Dereferenced(logs, "price_alert_id", id)
          /\ fired' = [fired EXCEPT ![id] = FALSE]
          /\ trail' = [trail EXCEPT ![id] = "none"]
          /\ last' = [Obs("admin", id, "price_alert_delete") EXCEPT !.committed = TRUE]
    /\ UNCHANGED <<telegram_configs, tv_alerts, pollVars, edits, keylog, px, rd, rq>>

\* price_alerts, action add
PriceAlertAdd ==
    /\ NextId(price_alerts) \in PAIds
    /\ \E symbol \in Symbols, alert_type \in AlertTypes, target_price \in TargetPrices,
          tc \in DOMAIN telegram_configs, template \in PATemplates,
          is_one_time \in BOOLEAN :
          price_alerts' = Put(price_alerts, NextId(price_alerts),
                              NewPriceAlert(symbol, alert_type, target_price, tc,
                                            template, is_one_time))
    /\ fired' = [fired EXCEPT ![NextId(price_alerts)] = FALSE]
    /\ last' = Obs("admin", 0, "price_alert_add")
    /\ UNCHANGED <<telegram_configs, tv_alerts, logs, pollVars, edits, keylog, px, rd, rq, trail>>

\* as EditedPriceAlert, with a reset that clears the flag and leaves the timestamp
EditedPriceAlert_KeepsStamp(row, symbol, alert_type, target_price, tc, template, is_active, is_one_time, reset_triggered) ==
    [symbol |-> symbol, alert_type |-> alert_type, target_price |-> target_price,
     message_template |-> template, is_active |-> is_active,
     is_one_time |-> is_one_time,
     is_triggered |-> IF reset_triggered THEN FALSE ELSE row.is_triggered,
     last_triggered_at |-> row.last_triggered_at,
     telegram_config_id |-> tc, updated_at |-> "at_edit"]

\* as EditedPriceAlert, with a reset that clears the timestamp and leaves the flag
EditedPriceAlert_KeepsFlag(row, symbol, alert_type, target_price, tc, template, is_active, is_one_time, reset_triggered) ==
    [symbol |-> symbol, alert_type |-> alert_type, target_price |-> target_price,
     message_template |-> template, is_active |-> is_active,
     is_one_time |-> is_one_time,
     is_triggered |-> row.is_triggered,
     last_triggered_at |-> IF reset_triggered THEN None ELSE row.last_triggered_at,
     telegram_config_id |-> tc, updated_at |-> "at_edit"]

\* line 343-357: the fields the edit action writes
EditedPriceAlert(row, symbol, alert_type, target_price, tc, template, is_active, is_one_time, reset_triggered) ==
    [symbol |-> symbol, alert_type |-> alert_type, target_price |-> target_price,
     message_template |-> template, is_active |-> is_active,
     is_one_time |-> is_one_time,
     is_triggered |-> IF reset_triggered THEN FALSE ELSE row.is_triggered,
     last_triggered_at |-> IF reset_triggered THEN None ELSE row.last_triggered_at,
     telegram_config_id |-> tc, updated_at |-> "at_edit"]

\* price_alerts, action edit
PriceAlertEdit ==
    /\ \E id \in DOMAIN price_alerts, symbol \in Symbols, alert_type \in AlertTypes,
          target_price \in TargetPrices, tc \in DOMAIN telegram_configs,
          template \in PATemplates, is_active \in BOOLEAN, is_one_time \in BOOLEAN,
          reset_triggered \in BOOLEAN :
          /\ price_alerts' = [price_alerts EXCEPT ![id] =
                EditedPriceAlert(@, symbol, alert_type, target_price, tc, template,
                                 is_active, is_one_time, reset_triggered)]
          /\ fired' = IF reset_triggered THEN [fired EXCEPT ![id] = FALSE] ELSE fired
          /\ trail' = IF reset_triggered /\ fired[id]
                      THEN [trail EXCEPT ![id] = "reset"] ELSE trail
    /\ last' = Obs("admin", 0, "price_alert_edit")
    /\ Edited
    /\ UNCHANGED <<telegram_configs, tv_alerts, logs, pollVars, keylog, px, rd, rq>>

----------------------------------------------------------------------------
(* One call of get_price_data, for every configuration and every pair of answers *)

PriceCalls ==
    [pc : {"call"}, symbol : Symbols, has_key : BOOLEAN, primary : Replies,
     secondary : Replies, data : {<<>>}, alt : {FALSE}]

GetPriceDataCall ==
    /\ px.pc = "call"
    /\ LET r == GetPriceData(px.symbol, px.has_key, px.primary, px.secondary)
       IN px' = [px EXCEPT !.pc = "done", !.data = r.data, !.alt = r.alt]
    /\ UNCHANGED <<storeVars, pollVars, last, edits, fired, keylog, rd, rq, trail>>

----------------------------------------------------------------------------
(* One rendering, for every short template and value map *)

Alphabet == {"$", "{", "}", "a", " "}

RECURSIVE SeqsUpTo(_, _)
SeqsUpTo(S, n) ==
    IF n = 0 THEN {<<>>}
    ELSE LET shorter == SeqsUpTo(S, n - 1)
         IN shorter \cup {Append(t, x) : t \in shorter, x \in S}

\* "{{a}} {{b}}"
TemplateAB == Braces("a") \o <<" ">> \o Braces("b")

\* "$a $b"
TemplateDollarAB == <<"$", "a", " ", "$", "b">>

RenderTemplates ==
    {t \in SeqsUpTo(Alphabet, MaxTplLen) : WellFormed(t)}
    \cup {TemplateAB, TemplateDollarAB, TVDefaultTemplate, TVDollarTemplate,
          PADefaultTemplate, Braces("symbol"), Braces("alert_type")}

\* value maps: {}, {a: "X"} and the payload of the scenario
RenderMaps == {Empty, [k \in {"a"} |-> "X"], ScenarioItems}

\* the values the poller renders with, whatever the template
PollerValues(symbol, current_price, target_price, alert_type) ==
    [k \in {"symbol", "current_price", "target_price", "alert_type"} |->
        CASE k = "symbol" -> symbol
          [] k = "current_price" -> FloatStr(current_price)
          [] k = "target_price" -> FloatStr(target_price)
          [] k = "alert_type" -> alert_type]

RenderCalls ==
    [pc : {"call"}, site : {"webhook"}, template : RenderTemplates,
     items : RenderMaps, out : {<<>>}]
    \cup [pc : {"call"}, site : {"poller"}, template : RenderTemplates,
          items : {PollerValues("AAPL", 2, 1, "above")}, out : {<<>>}]

RenderCall ==
    /\ rd.pc = "call"
    /\ rd' = [rd EXCEPT !.pc = "done", !.out =
                IF rd.site = "webhook"
                THEN WebhookRender(rd.template, "breakout_alert", MapPayload(rd.items))
                ELSE PollerRender(rd.template, "AAPL", 2, 1, "above")]
    /\ UNCHANGED <<storeVars, pollVars, last, edits, fired, keylog, px, rq, trail>>

----------------------------------------------------------------------------
(* Specifications *)

NoRd == [pc |-> "none"]

NoPx == [pc |-> "none"]

StoreInit ==
    /\ telegram_configs = Empty
    /\ tv_alerts = Empty
    /\ price_alerts = Empty
    /\ logs = <<>>
    /\ pc = "ready"
    /\ alerts = <<>>
    /\ idx = 1
    /\ cache = Empty
    /\ last = Obs("none", 0, "none")
    /\ edits = 0
    /\ fired = [id \in PAIds |-> FALSE]
    /\ keylog = [k \in Keys |-> "fresh"]
    /\ trail = [id \in PAIds |-> "none"]

NoRq == [pc |-> "none"]

Init == StoreInit /\ px = NoPx /\ rd = NoRd /\ rq = NoRq

NextPoller ==
    \/ StartCycle
    \/ Sleep
    \/ CheckAlert
    \/ TargetAdd
    \/ TargetEdit
    \/ PriceAlertAdd
    \/ PriceAlertEdit

SpecPoller == Init /\ [][NextPoller]_vars

\* The thread of run_checker runs as long as the host process does, and every
\* outbound call of a cycle has a timeout: each of its steps is taken in the end.
SchedulerFairness ==
    /\ WF_vars(StartCycle)
    /\ WF_vars(CheckAlert)
    /\ WF_vars(Sleep)

\* the poller and the edit action on price alerts, over a store that holds
\* one target and one or two alerts of kind above as the add action left them
NextRearm ==
    \/ StartCycle
    \/ Sleep
    \/ CheckAlert
    \/ PriceAlertEdit

AddedAlerts ==
    {NewPriceAlert("AAPL", "above", 1, 1, PADefaultTemplate, is_one_time) :
        is_one_time \in BOOLEAN}

InitRearm ==
    /\ telegram_configs = Put(Empty, 1, [is_active |-> TRUE])
    /\ tv_alerts = Empty
    /\ \E n \in 1..MaxPriceAlerts : price_alerts \in [1..n -> AddedAlerts]
    /\ logs = <<>>
    /\ pc = "ready"
    /\ alerts = <<>>
    /\ idx = 1
    /\ cache = Empty
    /\ last = Obs("none", 0, "none")
    /\ edits = 0
    /\ fired = [id \in PAIds |-> FALSE]
    /\ keylog = [k \in Keys |-> "fresh"]
    /\ trail = [id \in PAIds |-> "none"]
    /\ px = NoPx
    /\ rd = NoRd
    /\ rq = NoRq

SpecRearm == InitRearm /\ [][NextRearm]_vars

\* the poller over a store that admin actions only add to
NextScheduler ==
    \/ StartCycle
    \/ Sleep
    \/ CheckAlert
    \/ TargetAdd
    \/ PriceAlertAdd

SpecScheduler == Init /\ [][NextScheduler]_vars /\ SchedulerFairness

NextWebhook ==
    \/ ReceiveAlert
    \/ TargetAdd
    \/ TargetEdit
    \/ TVAlertAdd
    \/ TVAlertEdit
    \/ RegenerateWebhook

SpecWebhook == Init /\ [][NextWebhook]_vars

Next ==
    \/ StartCycle
    \/ Sleep
    \/ CheckAlert
    \/ ReceiveAlert
    \/ TargetAdd
    \/ TargetEdit
    \/ TargetDelete
    \/ PriceAlertDelete
    \/ TVAlertDelete
    \/ PriceAlertAdd
    \/ PriceAlertEdit
    \/ TVAlertAdd
    \/ TVAlertEdit
    \/ RegenerateWebhook

Spec == Init /\ [][Next]_vars

\* the admin actions alone
NextAdmin ==
    \/ TargetAdd
    \/ TargetEdit
    \/ TargetDelete
    \/ TVAlertAdd
    \/ TVAlertEdit
    \/ TVAlertDelete
    \/ RegenerateWebhook
    \/ PriceAlertAdd
    \/ PriceAlertEdit
    \/ PriceAlertDelete

SpecAdmin == Init /\ [][NextAdmin]_vars

\* The whole system over a store that holds alerts of one kind only, price
\* alerts or webhook alert configs.  The two dispatch paths share the store
\* and nothing else: the poller reads price_alerts, the dispatcher reads
\* tv_alerts, both read telegram_configs and append to logs.
NextOneKind ==
    \/ StartCycle
    \/ Sleep
    \/ CheckAlert
    \/ ReceiveAlert
    \/ TargetAdd
    \/ TargetEdit
    \/ tv_alerts = Empty /\ PriceAlertAdd
    \/ price_alerts = Empty /\ TVAlertAdd
    \/ RegenerateWebhook

SpecOneKind == Init /\ [][NextOneKind]_vars

\* one request against a store that holds one target and one config, each
\* active or switched off by an edit
InitRequest ==
    /\ \E target_active \in BOOLEAN, config_active \in BOOLEAN, template \in TVTemplates :
          /\ telegram_configs = Put(Empty, 1, [is_active |-> target_active])
          /\ tv_alerts = Put(Empty, 1,
                [NewTVAlert("breakout_alert", 1, 1, template) EXCEPT !.is_active = config_active])
    /\ price_alerts = Empty
    /\ logs = <<>>
    /\ pc = "ready"
    /\ alerts = <<>>
    /\ idx = 1
    /\ cache = Empty
    /\ last = Obs("none", 0, "none")
    /\ edits = 0
    /\ fired = [id \in PAIds |-> FALSE]
    /\ keylog = [k \in Keys |-> "fresh"]
    /\ trail = [id \in PAIds |-> "none"]
    /\ px = NoPx
    /\ rd = NoRd
    /\ rq \in Requests

NextRequest ==
    \/ RqResolve
    \/ RqRender
    \/ RqDeliver
    \/ RqPersist
    \/ RqRespond
    \/ RqBoundary
    \/ RqRespondError

SpecRequest == InitRequest /\ [][NextRequest]_vars

InitPrice == StoreInit /\ px \in PriceCalls /\ rd = NoRd /\ rq = NoRq
SpecPrice == InitPrice /\ [][GetPriceDataCall]_vars

InitRender == StoreInit /\ px = NoPx /\ rd \in RenderCalls /\ rq = NoRq
SpecRender == InitRender /\ [][RenderCall]_vars

----------------------------------------------------------------------------
(* Properties of the price alert poller *)

\* a step of the for loop of check_and_trigger_alerts
CheckStep == pc = "check" /\ (pc' # pc \/ idx' # idx)

\* the observed iteration fetched a price
Priced == last.op = "check" /\ last.outcome \in {"no_trigger", "triggered", "fault"}

\* the condition of section 4.5, step 4
ConditionHolds(alert_type, price, target_price) ==
    \/ alert_type = "above" /\ price > target_price
    \/ alert_type = "below" /\ price < target_price

\* C1: once a one-time alert has been triggered and its commit went through,
\* no later iteration that finds it one-time calls the gateway or appends a
\* log row for it, whatever the price, until an edit with reset_triggered.
C1_OneTimeNeverTwiceWithoutReset ==
    [][(CheckStep /\ fired[alerts[idx]] /\ last'.view.is_one_time)
          => (last'.sent = 0 /\ logs' = logs)]_vars

\* a triggered one-time alert is met again by a later cycle and skipped
C1_Witness ==
    /\ last.op = "check" /\ last.outcome = "skip_triggered"
    /\ last.view.is_one_time /\ fired[last.id]
    /\ \E i \in 1..Len(logs) : logs[i].price_alert_id = last.id

\* C2: an evaluated alert triggers if and only if its kind is above and the
\* price is strictly greater than the target, or its kind is below and the
\* price is strictly less; the gateway is not called otherwise.
C2_TriggersIffStrictlyBeyondTarget ==
    Priced =>
        /\ (last.outcome # "no_trigger") <=>
              ConditionHolds(last.view.alert_type, last.price, last.view.target_price)
        /\ last.outcome = "no_trigger" => last.sent = 0
        /\ last.outcome = "triggered" => last.sent = 1

\* an alert of kind above triggers on a price above its target
C2_Witness ==
    /\ Priced /\ last.outcome = "triggered" /\ last.sent = 1
    /\ last.view.alert_type = "above" /\ last.price > last.view.target_price

\* C4: an alert that is not one-time is never skipped as already triggered;
\* whenever it is evaluated with a price that meets its condition the gateway
\* is called, and the commit, when it goes through, adds one log row for it.
C4_NotOneTimeTriggersEveryCycle ==
    (last.op = "check" /\ ~last.view.is_one_time) =>
        /\ last.outcome # "skip_triggered"
        /\ (Priced /\ ConditionHolds(last.view.alert_type, last.price,
                                     last.view.target_price))
              => /\ last.sent = 1
                 /\ last.committed =>
                       /\ logs # <<>>
                       /\ logs[Len(logs)] = LogRow(0, last.id, last.message, last.result)

\* the same alert, not one-time, has triggered in two cycles
C4_Witness ==
    /\ last.op = "check" /\ last.outcome = "triggered" /\ last.committed
    /\ ~last.view.is_one_time
    /\ Len(logs) = 2 /\ logs[1].price_alert_id = last.id /\ logs[2].price_alert_id = last.id

\* C9: when get_price_data returns nothing for an alert, the iteration calls
\* no gateway, writes no log row, changes no alert, raises nothing, and the
\* loop goes on with the next alert of the list.
C9_NoPriceSkipsAlert ==
    [][(CheckStep /\ last'.outcome = "no_price")
          => /\ last'.sent = 0
             /\ logs' = logs
             /\ price_alerts' = price_alerts
             /\ alerts' = alerts
             /\ idx' = idx + 1
             /\ pc' = IF idx < Len(alerts) THEN "check" ELSE "sleep"]_vars

\* an alert was skipped for want of a price and the next one is about to be evaluated
C9_Witness ==
    /\ last.op = "check" /\ last.outcome = "no_price"
    /\ pc = "check" /\ idx = 2 /\ Len(alerts) = 2

\* C10: a fault raised while one alert is evaluated leaves no other alert of
\* the cycle unevaluated.
C10_FaultDoesNotAbortCycle ==
    (pc = "sleep" /\ last.op = "check" /\ last.outcome = "fault") => idx >= Len(alerts)

----------------------------------------------------------------------------
(* Properties of the log *)

\* the row a dispatch is to leave: status success exactly when the gateway
\* returned success
ExpectedRow(obs) ==
    LogRow(IF obs.op = "webhook" THEN obs.id ELSE 0,
           IF obs.op = "check" THEN obs.id ELSE 0,
           obs.message,
           IF obs.result = "success" THEN "success" ELSE "failed")

\* the observed handler execution is a dispatch that resolved a configuration:
\* a webhook request past the key and target checks, or a price alert whose
\* condition triggered
Dispatched(obs) ==
    \/ /\ obs.op = "webhook" /\ obs.id # 0
       /\ obs.outcome \in {"delivered", "fault"}
       /\ obs.view.telegram_config_id \in DOMAIN telegram_configs
    \/ /\ obs.op = "check"
       /\ obs.outcome \in {"triggered", "fault"}

\* C3: every dispatch that resolved a configuration appends exactly one log
\* row, with status success exactly when the gateway returned success and
\* failed otherwise, also when a store write of the handler fails.
C3_OneRowPerDispatch ==
    [][Dispatched(last') => logs' = Append(logs, ExpectedRow(last'))]_vars

----------------------------------------------------------------------------
(* Properties of the webhook dispatcher *)

\* C5: a request that bears a key which a committed regeneration has replaced,
\* and which no config has been given since, sends nothing; when the lookup
\* of the key runs, the answer is 404 and no log row is written.
C5_RegeneratedKeyIsInvalid ==
    (last.op = "webhook" /\ keylog[last.key] = "revoked") =>
        /\ last.sent = 0
        /\ last.outcome # "delivered"
        /\ last.outcome # "fault" => last.code = 404 /\ last.id = 0

\* a request with the replaced key of a config that still exists got 404
C5_Witness ==
    /\ last.op = "webhook" /\ keylog[last.key] = "revoked"
    /\ last.code = 404 /\ last.sent = 0
    /\ \E id \in DOMAIN tv_alerts :
          tv_alerts[id].is_active /\ tv_alerts[id].webhook_key # last.key

\* "TradingView Alert: breakout - AAPL - 150.2"
ScenarioMessage ==
    <<"TradingView", " ", "Alert", ": ", "breakout", " - ", "AAPL", " - ", "150.2">>

\* C6: a request with the payload of the scenario for a config with the
\* default template sends the message "TradingView Alert: breakout - AAPL -
\* 150.2" once, and the log row has status success when the gateway
\* returned success.
C6_ScenarioRendersDefaultTemplate ==
    (/\ last.op = "webhook" /\ last.outcome = "delivered"
     /\ last.view.message_template = TVDefaultTemplate
     /\ last.payload = MapPayload(ScenarioItems))
    => /\ last.message = ScenarioMessage
       /\ last.sent = 1
       /\ last.result = "success" => logs[Len(logs)] = LogRow(last.id, 0, last.message, "success")

----------------------------------------------------------------------------
(* Properties of rendering *)

\* the rendering of section 4.2 for double-brace placeholders: "{{name}}" is
\* replaced by the value of name when the map has it and kept otherwise
RECURSIVE BraceSubstitute(_, _)
BraceSubstitute(t, m) ==
    IF t = <<>> THEN <<>>
    ELSE IF /\ Len(t) >= 5 /\ t[1] = "{" /\ t[2] = "{" /\ t[3] \in IdentTokens
            /\ t[4] = "}" /\ t[5] = "}"
         THEN (IF t[3] \in DOMAIN m THEN <<m[t[3]]>> ELSE SubSeq(t, 1, 5))
              \o BraceSubstitute(Drop(t, 5), m)
    ELSE <<t[1]>> \o BraceSubstitute(Tail(t), m)

\* C7: at both call sites, for every template and value map, rendering
\* replaces each double-brace placeholder whose key is in the map by its
\* value and keeps every other placeholder as it is written.
C7_RenderSubstitutesPresentKeys ==
    rd.pc = "done" => rd.out = BraceSubstitute(rd.template, rd.items)

----------------------------------------------------------------------------
(* Properties of get_price_data *)

\* C8: when no API key is configured, and when the primary call fails, the
\* alternative source is queried and what it gives is returned.
C8_FallsBackToAlternativeSource ==
    (px.pc = "done" /\ (~px.has_key \/ ParseReply(px.symbol, px.primary) = <<>>))
        => (px.alt /\ px.data = GetPriceFromAlternativeSource(px.symbol, px.secondary))

----------------------------------------------------------------------------
(* Properties of the scheduler *)

\* a step that starts a cycle: the list of active alerts is loaded
CycleStarts == last'.op = "load" /\ pc' # "ready"

\* C11: poll cycles recur forever, and every cycle starts after time.sleep
\* has returned; a cycle that ended early on a fault is followed by the
\* sleep and by the next cycle like any other.
C11_CyclesRecurForever ==
    /\ []<><<StartCycle>>_vars
    /\ [][CycleStarts => pc = "ready"]_vars
    /\ (pc = "sleep" /\ last.op = "check" /\ last.outcome = "fault") ~> (pc = "ready")

\* the scheduler has slept after a cycle that ended early on a fault and is
\* about to start the next cycle
C11_Witness ==
    /\ pc = "ready" /\ last.op = "check" /\ last.outcome = "fault"
    /\ idx < Len(alerts)

\* C12: a cycle never starts while another cycle of the same poller is
\* inside its loop.
C12_CyclesNeverOverlap ==
    [][CycleStarts => pc # "check"]_vars

\* a cycle with two alerts is between its two iterations, the only thing
\* the scheduler has in progress
C12_Witness ==
    /\ pc = "check" /\ idx = 2 /\ Len(alerts) = 2
    /\ last.op = "check" /\ last.sent = 1

----------------------------------------------------------------------------
(* Properties of the webhook responses *)

\* the observed request found no active config for its key
KeyUnresolved == last.outcome # "fault" /\ Resolve(last.key) = {}

\* the observed request found a config whose target is not active
TargetInactive ==
    /\ last.outcome # "fault" /\ Resolve(last.key) # {}
    /\ ~telegram_configs[last.view.telegram_config_id].is_active

\* C13: the response is 200 exactly when the gateway reported success and
\* the handler ran to its end, 404 exactly when no active config has the key,
\* 400 exactly when the config resolves and its target is not active, and
\* 500 in every other case: the gateway reported failure or something raised.
C13_ResponseCodeByOutcome ==
    last.op = "webhook" =>
        /\ last.code \in {200, 400, 404, 500}
        /\ last.code = 200 <=> (last.outcome = "delivered" /\ last.result = "success")
        /\ last.code = 404 <=> KeyUnresolved
        /\ last.code = 400 <=> TargetInactive
        /\ last.code = 500 <=>
              \/ last.outcome = "fault"
              \/ last.outcome = "delivered" /\ last.result = "failed"

\* the gateway reported failure: the row is committed and the answer is 500
C13_Witness ==
    /\ last.op = "webhook" /\ last.outcome = "delivered" /\ last.committed
    /\ last.result = "failed" /\ last.code = 500
    /\ logs # <<>> /\ logs[Len(logs)].status = "failed"

\* the configs that hold the key, active or not
ConfigsWithKey(webhook_key) ==
    {id \in DOMAIN tv_alerts : tv_alerts[id].webhook_key = webhook_key}

\* C14: the gateway is called only for a key that resolves to an active
\* config whose target is active; a request rejected at resolution calls no
\* gateway and appends no log row.
C14_DeliveredOnlyWhenActive ==
    [][last'.op = "webhook" =>
          /\ last'.sent = 1 =>
                /\ last'.id \in DOMAIN tv_alerts
                /\ tv_alerts[last'.id].webhook_key = last'.key
                /\ tv_alerts[last'.id].is_active
                /\ tv_alerts[last'.id].telegram_config_id \in DOMAIN telegram_configs
                /\ telegram_configs[tv_alerts[last'.id].telegram_config_id].is_active
          /\ last'.outcome = "rejected" => (last'.sent = 0 /\ logs' = logs)
          /\ (last'.outcome # "fault" /\ ConfigsWithKey(last'.key) = {})
                => last'.outcome = "rejected"
          /\ (last'.outcome # "fault" /\
              \A id \in ConfigsWithKey(last'.key) :
                 \/ ~tv_alerts[id].is_active
                 \/ /\ tv_alerts[id].telegram_config_id \in DOMAIN telegram_configs
                    /\ ~telegram_configs[tv_alerts[id].telegram_config_id].is_active)
                => last'.outcome = "rejected"]_vars

\* a request for the key of a config that is not active was rejected
C14_Witness ==
    /\ last.op = "webhook" /\ last.outcome = "rejected" /\ last.code = 404
    /\ last.sent = 0
    /\ \E id \in DOMAIN tv_alerts :
          tv_alerts[id].webhook_key = last.key /\ ~tv_alerts[id].is_active

\* C15: every fault of a request ends at the boundary of the handler: the
\* answer is 500 and one row with status failed is appended, with the
\* reference of the config when it had been resolved and without it otherwise.
C15_FaultIsLoggedAtBoundary ==
    [][(last'.op = "webhook" /\ last'.outcome = "fault")
          => /\ last'.code = 500
             /\ logs' = Append(logs, LogRow(last'.id, 0, <<>>, "failed"))]_vars

----------------------------------------------------------------------------
(* Properties of the stages of a request *)

\* the place of a statement group in the order resolve, render, deliver,
\* persist, respond
StageRank(stage) ==
    CASE stage = "received" -> 0
      [] stage = "resolved" -> 1
      [] stage = "rendered" -> 2
      [] stage = "delivered" -> 3
      [] stage = "persisted" -> 4
      [] stage = "boundary" -> 5
      [] stage = "handled" -> 6
      [] stage = "responded" -> 7

\* C16: a request goes through resolve, render, deliver, persist and respond
\* in this order; the row of a delivery is committed while no response
\* exists yet, and it is in the log when the response is given, also when
\* the gateway reported failure.
C16_LogBeforeResponse ==
    /\ [][rq'.pc # rq.pc => StageRank(rq'.pc) > StageRank(rq.pc)]_vars
    /\ [][rq'.pc = "rendered" => rq.pc \in {"resolved", "rendered"}]_vars
    /\ [][rq'.pc = "delivered" => rq.pc \in {"rendered", "delivered"}]_vars
    /\ [][rq'.pc = "persisted" => rq.pc \in {"delivered", "persisted"}]_vars
    /\ [][logs' # logs => (rq.code = 0 /\ rq'.code = 0)]_vars
    /\ [][(rq.pc = "persisted" /\ rq'.pc = "responded")
             => /\ logs' = logs
                /\ logs = <<LogRow(rq.id, 0, rq.message, rq.result)>>]_vars
    /\ [](rq.pc = "responded" /\ rq.code = 200 => rq.persisted)

\* the gateway reported failure, the row was committed, then the caller got 500
C16_Witness ==
    /\ rq.pc = "responded" /\ rq.persisted /\ rq.sent = 1
    /\ rq.result = "failed" /\ rq.code = 500
    /\ logs = <<LogRow(rq.id, 0, rq.message, "failed")>>

----------------------------------------------------------------------------
(* Properties of the admin actions *)

\* C17: after any sequence of admin add, edit and delete actions, every
\* webhook alert config and every price alert references a target that exists.
C17_ReferencedTargetExists ==
    /\ \A id \in DOMAIN tv_alerts :
          tv_alerts[id].telegram_config_id \in DOMAIN telegram_configs
    /\ \A id \in DOMAIN price_alerts :
          price_alerts[id].telegram_config_id \in DOMAIN telegram_configs

\* the delete action has run on a target that an alert references, and the
\* target is still there
C17_Witness ==
    /\ last.op = "admin" /\ last.outcome = "target_delete"
    /\ last.id \in DOMAIN telegram_configs
    /\ Referencing(last.id).tv # {} \/ Referencing(last.id).pa # {}

----------------------------------------------------------------------------
(* Properties of the log rows *)

\* a step of the webhook dispatcher or of the poller (a request, the start
\* of a cycle, an iteration of its loop, the sleep between two cycles)
CoreStep ==
    \/ last'.op \in {"webhook", "load", "check"}
    \/ pc = "sleep" /\ pc' = "ready"

\* the step appends one row
Appends == Len(logs') = Len(logs) + 1

\* C18: no log row has both alert_id and price_alert_id; a row of the
\* webhook dispatcher has no price_alert_id and has the alert_id of the
\* resolved config, or none when the request failed before resolution; a row
\* of the poller has the price_alert_id of its alert and no alert_id.
C18_RowReferencesOneKind ==
    /\ [](\A i \in DOMAIN logs : logs[i].alert_id = 0 \/ logs[i].price_alert_id = 0)
    /\ [][(last'.op = "webhook" /\ Appends)
             => /\ logs'[Len(logs')].price_alert_id = 0
                /\ logs'[Len(logs')].alert_id = last'.id
                /\ last'.id # 0 => last'.id \in Resolve(last'.key)
                /\ last'.id = 0 => last'.outcome = "fault"]_vars
    /\ [][(last'.op = "check" /\ Appends)
             => /\ logs'[Len(logs')].alert_id = 0
                /\ logs'[Len(logs')].price_alert_id = last'.id
                /\ last'.id \in DOMAIN price_alerts]_vars

\* a request that failed before its config was resolved left a row with
\* neither reference
C18_Witness ==
    /\ last.op = "webhook" /\ last.outcome = "fault" /\ last.id = 0
    /\ logs # <<>> /\ logs[Len(logs)] = LogRow(0, 0, <<>>, "failed")

\* C19: a step of the webhook dispatcher or of the poller leaves every
\* existing log row in its place and unchanged, and adds at most one row.
C19_LogIsAppendOnly ==
    [][CoreStep => /\ Len(logs') \in {Len(logs), Len(logs) + 1}
                   /\ SubSeq(logs', 1, Len(logs)) = logs]_vars

\* a fault of the dispatcher added its row behind the row of an earlier dispatch
C19_Witness ==
    /\ Len(logs) = 2 /\ last.op = "webhook" /\ last.outcome = "fault"
    /\ logs[1].status = "success" /\ logs[2].status = "failed"

----------------------------------------------------------------------------
(* Properties of the notification gateway *)

\* C20: the gateway returns success exactly when the provider answers with a
\* 2xx status, and an error for any other status and for a transport failure.
C20_SuccessIffStatus2xx ==
    rq.pc \in {"delivered", "persisted", "handled", "responded"} /\ rq.sent = 1
        => (rq.result = "success" <=> rq.response \in 200..299)

----------------------------------------------------------------------------
(* Properties of the reset of a price alert *)

\* the step is an iteration of the loop that fetched a price meeting the
\* condition of the alert as the loop sees it
MeetsCondition ==
    /\ CheckStep
    /\ last'.outcome \in {"no_trigger", "triggered", "fault"}
    /\ ConditionHolds(last'.view.alert_type, last'.price, last'.view.target_price)

\* C21: a reset clears the triggered flag and the timestamp of the alert at
\* any point of the poll cycle; both stay cleared until the poller triggers
\* the alert again, every cycle that starts afterwards loads it as not
\* triggered, and an iteration that sees it so, one-time, with a price that
\* meets its condition calls the gateway.
C21_ResetRearmsAlert ==
    /\ [](\A id \in DOMAIN price_alerts :
             trail[id] = "reset" =>
                /\ ~price_alerts[id].is_triggered
                /\ price_alerts[id].last_triggered_at = None)
    /\ [][(trail' # trail /\ \E id \in PAIds : trail'[id] = "reset" /\ trail[id] # "reset")
             => UNCHANGED <<pollVars, logs>>]_vars
    /\ [][CycleStarts =>
             \A id \in DOMAIN cache' : trail[id] = "reset" => ~cache'[id].is_triggered]_vars
    /\ [][(MeetsCondition /\ trail[alerts[idx]] = "reset"
             /\ last'.view.is_one_time /\ ~last'.view.is_triggered)
             => last'.sent = 1]_vars

\* a one-time alert triggered, was reset, and triggered again in a later cycle
C21_Witness ==
    /\ last.op = "check" /\ last.outcome = "triggered" /\ last.committed
    /\ last.view.is_one_time /\ trail[last.id] = "refired"
    /\ Len(logs) = 2 /\ logs[1].price_alert_id = last.id /\ logs[2].price_alert_id = last.id
    /\ price_alerts[last.id].is_triggered

----------------------------------------------------------------------------
(* Properties of the webhook keys *)

\* the keys that configs other than `id` hold
KeysOfOthers(id) == {tv_alerts[i].webhook_key : i \in DOMAIN tv_alerts \ {id}}

\* C22: no two alert configs hold the same webhook key; an add or a
\* regeneration whose generated key is held by another config changes no
\* config, and one that commits hands out a key that no other config holds.
C22_WebhookKeysUnique ==
    /\ [](\A i, j \in DOMAIN tv_alerts :
             i # j => tv_alerts[i].webhook_key # tv_alerts[j].webhook_key)
    /\ [][last'.outcome = "alert_add" =>
             IF last'.key \in KeysOfOthers(0)
             THEN tv_alerts' = tv_alerts /\ ~last'.committed
             ELSE /\ last'.committed
                  /\ tv_alerts' = Put(tv_alerts, NextId(tv_alerts), tv_alerts'[NextId(tv_alerts)])
                  /\ tv_alerts'[NextId(tv_alerts)].webhook_key = last'.key]_vars
    /\ [][last'.outcome = "regenerate" =>
             IF last'.committed
             THEN tv_alerts'[last'.id].webhook_key \notin KeysOfOthers(last'.id)
             ELSE /\ tv_alerts' = tv_alerts
                  /\ \E k \in KeysOfOthers(last'.id) : k # tv_alerts[last'.id].webhook_key]_vars

\* an add generated the key of an existing config and left the store as it was
C22_Witness ==
    /\ last.op = "admin" /\ last.outcome = "alert_add" /\ ~last.committed
    /\ Cardinality(DOMAIN tv_alerts) = 1
    /\ \E id \in DOMAIN tv_alerts : tv_alerts[id].webhook_key = last.key

----------------------------------------------------------------------------
(* Properties of the commits of a poll cycle *)

\* C23: an iteration of the loop either writes nothing, or commits the log
\* row of its alert together with the flag and the timestamp of a one-time
\* alert; an iteration that ends in a fault writes nothing and leaves every
\* row committed before it, in this cycle or earlier, as it is.
C23_CommitIsAtomicPerAlert ==
    [][CheckStep =>
          /\ \/ logs' = logs /\ price_alerts' = price_alerts /\ ~last'.committed
             \/ /\ last'.committed
                /\ logs' = Append(logs, LogRow(0, alerts[idx], last'.message, last'.result))
                /\ price_alerts' =
                      IF last'.view.is_one_time
                      THEN [price_alerts EXCEPT ![alerts[idx]] =
                              [@ EXCEPT !.is_triggered = TRUE, !.last_triggered_at = UtcNow,
                                        !.updated_at = "at_trigger"]]
                      ELSE price_alerts
          /\ last'.outcome = "fault" => (logs' = logs /\ price_alerts' = price_alerts)]_vars

\* the commit of the second alert of a cycle failed after its gateway call:
\* the alert is not triggered and has no row, the first alert keeps its row
\* and its flag
C23_Witness ==
    /\ last.op = "check" /\ last.outcome = "fault" /\ last.sent = 1
    /\ Len(alerts) = 2 /\ idx = 2 /\ last.id = alerts[2]
    /\ last.view.is_one_time /\ ~price_alerts[alerts[2]].is_triggered
    /\ price_alerts[alerts[1]].is_triggered
    /\ logs = <<LogRow(0, alerts[1], <<>>, logs[1].status)>>

----------------------------------------------------------------------------
(* Properties of the rendering fallback *)

\* the request resolved a config and parsed a payload on which rendering the
\* template of the config raises
RqRenderRaises ==
    /\ rq.id \in DOMAIN tv_alerts
    /\ ~ParseRaises(rq.body)
    /\ ~ParsePayload(rq.body).map
    /\ HasDollarPlaceholder(tv_alerts[rq.id].message_template)

\* C24: a request whose rendering raises goes on with the fallback message,
\* which holds the name of the config and the payload as received; the
\* gateway is called with it, and the log row of the dispatch is written
\* before the response unless the commit of the row itself fails.
C24_RenderFailureFallsBack ==
    /\ [][(rq.pc = "resolved" /\ RqRenderRaises /\ rq'.pc # rq.pc)
             => /\ rq'.pc = "rendered"
                /\ rq'.message = FallbackMessage(tv_alerts[rq.id].name, ParsePayload(rq.body))]_vars
    /\ [][(rq.pc = "rendered" /\ RqRenderRaises /\ rq'.pc # rq.pc)
             => rq'.pc = "delivered" /\ rq'.sent = 1]_vars
    /\ []((rq.pc = "responded" /\ RqRenderRaises /\ rq.code \notin {400, 404})
             => /\ rq.sent = 1
                /\ rq.persisted =>
                      logs = <<LogRow(rq.id, 0, rq.message, rq.result)>>
                /\ rq.code = 200 => rq.persisted)

\* a JSON list was posted to a config whose template has placeholders: the
\* fallback message was sent and logged
C24_Witness ==
    /\ rq.pc = "responded" /\ RqRenderRaises /\ rq.code = 200
    /\ rq.body = "list" /\ rq.sent = 1 /\ rq.persisted
    /\ rq.message = <<"TradingView", " ", "Alert", " (", "breakout_alert", "): ", "[1]">>
    /\ logs = <<LogRow(rq.id, 0, rq.message, "success")>>

----------------------------------------------------------------------------
(* Properties of the delete of a target *)

\* C25: the delete action on a target that no webhook alert config and no
\* price alert references removes the target and reports success.
C25_UnreferencedTargetIsDeleted ==
    [][(/\ last'.op = "admin" /\ last'.outcome = "target_delete"
        /\ last'.id \in DOMAIN telegram_configs
        /\ Referencing(last'.id).tv = {} /\ Referencing(last'.id).pa = {})
          => /\ telegram_configs' = Del(telegram_configs, last'.id)
             /\ last'.committed]_vars

----------------------------------------------------------------------------
(* Properties of the order of delivery and commit in the poller *)

\* C26: an iteration writes to the store only after it has called the
\* gateway, so an alert is triggered only if a row of a delivery attempt
\* exists for it; a fault after the gateway call writes nothing and leaves a
\* one-time alert not triggered, and later iterations do not skip the alert:
\* with a price that meets its condition they call the gateway again.
C26_DeliveryPrecedesCommit ==
    /\ [][(CheckStep /\ (logs' # logs \/ price_alerts' # price_alerts))
             => last'.sent = 1]_vars
    /\ [](\A id \in DOMAIN price_alerts :
             /\ price_alerts[id].is_triggered =>
                   \E i \in DOMAIN logs : logs[i].price_alert_id = id
             /\ trail[id] = "lost" => ~price_alerts[id].is_triggered)
    /\ [][(CheckStep /\ last'.outcome = "fault" /\ last'.sent = 1)
             => /\ logs' = logs /\ price_alerts' = price_alerts
                /\ last'.view.is_one_time => ~price_alerts'[alerts[idx]].is_triggered]_vars
    /\ [][(CheckStep /\ trail[alerts[idx]] = "lost" /\ last'.view.is_one_time)
             => /\ last'.outcome # "skip_triggered"
                /\ MeetsCondition => last'.sent = 1]_vars

\* the commit of a one-time alert failed after its gateway call, and a later
\* cycle delivered the alert again: two gateway calls, one row
C26_Witness ==
    /\ last.op = "check" /\ last.outcome = "triggered" /\ last.committed
    /\ last.view.is_one_time /\ trail[last.id] = "redelivered"
    /\ price_alerts[last.id].is_triggered
    /\ Cardinality({i \in DOMAIN logs : logs[i].price_alert_id = last.id}) = 1

----------------------------------------------------------------------------
(* Properties of a failed delivery of a one-time alert *)

\* the alert has a row of a failed delivery and no other row
OnlyFailedRow(id) ==
    /\ \E i \in DOMAIN logs : logs[i].price_alert_id = id
    /\ \A i \in DOMAIN logs : logs[i].price_alert_id = id => logs[i].status = "failed"

\* C27: the commit of a triggered one-time alert sets its flag whatever the
\* gateway returned; when the gateway returned failure the row has status
\* failed and the flag is set all the same, and the alert, while it is
\* one-time and not reset, is skipped by every later iteration.
C27_FailedDeliveryStillTriggers ==
    /\ [][(CheckStep /\ last'.committed /\ last'.view.is_one_time)
             => /\ price_alerts'[alerts[idx]].is_triggered
                /\ logs'[Len(logs')].status = last'.result
                /\ last'.result \in {"success", "failed"}]_vars
    /\ [][(CheckStep /\ last'.sent = 1 /\ last'.result = "failed" /\ last'.view.is_one_time)
             => \/ last'.outcome = "fault" /\ logs' = logs
                \/ /\ logs'[Len(logs')] = LogRow(0, alerts[idx], last'.message, "failed")
                   /\ price_alerts'[alerts[idx]].is_triggered]_vars
    /\ [][(CheckStep /\ OnlyFailedRow(alerts[idx]) /\ last'.view.is_one_time
             /\ price_alerts[alerts[idx]].is_triggered)
             => last'.outcome = "skip_triggered" /\ last'.sent = 0]_vars

\* a one-time alert whose only delivery failed is skipped by a later cycle
C27_Witness ==
    /\ last.op = "check" /\ last.outcome = "skip_triggered"
    /\ last.view.is_one_time /\ price_alerts[last.id].is_triggered
    /\ OnlyFailedRow(last.id)

----------------------------------------------------------------------------
(* Properties of the active flag of a target *)

\* the target exists and is not active
Inactive(tc) == tc \in DOMAIN telegram_configs /\ ~telegram_configs[tc].is_active

\* C28: the poller passes over an alert only when it is one-time and
\* triggered; an iteration with a price that meets the condition of its alert
\* calls the gateway and, when its commit goes through, appends the row, also
\* when the target of the alert is not active.  A webhook request whose
\* config resolves to such a target is rejected with 400: no gateway call,
\* no row.
C28_PollerIgnoresTargetActive ==
    /\ [][(CheckStep /\ last'.outcome = "skip_triggered")
             => (last'.view.is_one_time /\ last'.view.is_triggered)]_vars
    /\ [][(MeetsCondition /\ Inactive(last'.view.telegram_config_id))
             => /\ last'.sent = 1
                /\ last'.committed =>
                      logs' = Append(logs, LogRow(0, alerts[idx], last'.message, last'.result))]_vars
    /\ [][(/\ last'.op = "webhook" /\ last'.id \in DOMAIN tv_alerts
           /\ Inactive(tv_alerts[last'.id].telegram_config_id))
             => /\ last'.outcome = "rejected" /\ last'.code = 400
                /\ last'.sent = 0 /\ logs' = logs]_vars

\* the poller delivered and logged an alert whose target is not active
C28_Witness ==
    /\ last.op = "check" /\ last.outcome = "triggered" /\ last.committed
    /\ last.sent = 1 /\ Inactive(last.view.telegram_config_id)
    /\ logs # <<>> /\ logs[Len(logs)].price_alert_id = last.id

----------------------------------------------------------------------------
(* Properties of the fields of a price alert *)

\* C29: the triggered flag of a price alert is set if and only if its
\* last-triggered timestamp is set.
C29_TriggeredIffStamped ==
    \A id \in DOMAIN price_alerts :
        price_alerts[id].is_triggered <=> price_alerts[id].last_triggered_at # None

\* one alert is triggered and stamped, another was triggered and then reset
C29_Witness ==
    \E a, b \in DOMAIN price_alerts :
        /\ price_alerts[a].is_triggered /\ price_alerts[a].last_triggered_at = UtcNow
        /\ trail[b] = "reset"
        /\ ~price_alerts[b].is_triggered /\ price_alerts[b].last_triggered_at = None

\* the row but for the two fields the poller assigns
Configured(row) == [row EXCEPT !.is_triggered = FALSE, !.last_triggered_at = None]

\* the row but for the fields the UPDATE of the poller sets
Settings(row) == [Configured(row) EXCEPT !.updated_at = "at_add"]

\* C30: an iteration of the poller changes no target and no webhook alert
\* config, adds and removes no price alert, and changes no field of a price
\* alert other than is_triggered and last_triggered_at of the alert of the
\* iteration, those only when the alert is one-time and its trigger is
\* committed; the start of a cycle and the sleep change no row at all; a
\* webhook request changes no alert config, no target and no price alert.
C30_PollerWritesOnlyTriggerFields ==
    /\ [][CheckStep =>
             /\ UNCHANGED <<telegram_configs, tv_alerts>>
             /\ DOMAIN price_alerts' = DOMAIN price_alerts
             /\ \A id \in DOMAIN price_alerts :
                   /\ Configured(price_alerts'[id]) = Configured(price_alerts[id])
                   /\ (id # alerts[idx] \/ ~last'.committed \/ ~last'.view.is_one_time)
                         => price_alerts'[id] = price_alerts[id]]_vars
    /\ [][(CycleStarts \/ (pc = "sleep" /\ pc' = "ready"))
             => UNCHANGED <<telegram_configs, tv_alerts, price_alerts>>]_vars
    /\ [][last'.op = "webhook"
             => UNCHANGED <<telegram_configs, tv_alerts, price_alerts>>]_vars

\* C30, amended: as above, with updated_at among the fields that the
\* committed trigger of a one-time alert changes.
C30_PollerWritesTriggerFieldsAndUpdatedAt ==
    /\ [][CheckStep =>
             /\ UNCHANGED <<telegram_configs, tv_alerts>>
             /\ DOMAIN price_alerts' = DOMAIN price_alerts
             /\ \A id \in DOMAIN price_alerts :
                   /\ Settings(price_alerts'[id]) = Settings(price_alerts[id])
                   /\ (id # alerts[idx] \/ ~last'.committed \/ ~last'.view.is_one_time)
                         => price_alerts'[id] = price_alerts[id]]_vars
    /\ [][(CycleStarts \/ (pc = "sleep" /\ pc' = "ready"))
             => UNCHANGED <<telegram_configs, tv_alerts, price_alerts>>]_vars
    /\ [][last'.op = "webhook"
             => UNCHANGED <<telegram_configs, tv_alerts, price_alerts>>]_vars

\* the trigger of a one-time alert was committed: its row differs from the
\* one the cycle loaded in is_triggered, last_triggered_at and updated_at
C30_Witness ==
    /\ last.op = "check" /\ last.outcome = "triggered" /\ last.committed
    /\ last.view.is_one_time /\ last.view.updated_at = "at_add"
    /\ price_alerts[last.id] =
          [last.view EXCEPT !.is_triggered = TRUE, !.last_triggered_at = UtcNow,
                            !.updated_at = "at_trigger"]
    /\ \E id \in DOMAIN price_alerts :
          ~price_alerts[id].is_one_time /\ price_alerts[id].updated_at = "at_add"
          /\ \E i \in DOMAIN logs : logs[i].price_alert_id = id

====
